---- MODULE Spec2Model ----
(***************************************************************************)
(* Model of fileserver.go: an HTTP file server with a directory listing,   *)
(* a file streamer (range mode / full mode) and a bounded speed-test       *)
(* stream.                                                                 *)
(*                                                                         *)
(* A path string is modelled as the sequence of its components when split  *)
(* on "/":  ""  is <<"">>,  "/"  is <<"","">>,  "/m/x" is <<"","m","x">>,  *)
(* "m/" is <<"m","">>.  Joining two strings with a "/" between them is     *)
(* sequence concatenation.                                                 *)
(***************************************************************************)
EXTENDS Integers, Sequences, FiniteSets, TLC

VARIABLES dir, speedBytes, fs, active, fds, wk, pin, pout

vars == <<dir, speedBytes, fs, active, fds, wk, pin, pout>>

(***************************************************************************)
(* Bounds of the model.                                                    *)
(***************************************************************************)
\* longest request path / file parameter (in components) tried by PathSpec
MaxSegs == 3
\* largest -speedbytes value tried
MaxSpeedBytes == 3
\* largest length of the marshalled JSON summary, in the stream's units
MaxJsonLen == 2

(***************************************************************************)
(* Program constants, scaled: the copy buffer (1<<20) and the default      *)
(* speed-test budget (50<<20) keep their order (BufLen < DefaultSize).     *)
(***************************************************************************)
BufLen == 2
DefaultSize == 3

Workers == {1, 2}

Min(a, b) == IF a < b THEN a ELSE b

Last(s) == s[Len(s)]

Front(s) == SubSeq(s, 1, Len(s) - 1)

IsPrefix(a, b) == Len(a) <= Len(b) /\ SubSeq(b, 1, Len(a)) = a

(***************************************************************************)
(* path/filepath (Unix): Clean and Join.                                   *)
(***************************************************************************)
IsRooted(p) == Len(p) >= 2 /\ p[1] = ""

RECURSIVE CleanSegs(_, _, _)
\* the component loop of filepath.Clean: segs still to read, out written so far
CleanSegs(segs, rooted, out) ==
  IF segs = <<>> THEN out
  ELSE LET s == Head(segs)
           rest == Tail(segs)
       IN  IF s = "" \/ s = "."
             THEN CleanSegs(rest, rooted, out)
           ELSE IF s = ".."
             THEN IF out # <<>> /\ Last(out) # ".."
                    THEN CleanSegs(rest, rooted, Front(out))
                  ELSE IF rooted
                    THEN CleanSegs(rest, rooted, out)
                  ELSE CleanSegs(rest, rooted, Append(out, ".."))
           ELSE CleanSegs(rest, rooted, Append(out, s))

\* filepath.Clean
Clean(p) ==
  LET rooted == IsRooted(p)
      out == CleanSegs(IF rooted THEN Tail(p) ELSE p, rooted, <<>>)
  IN  IF rooted
        THEN (IF out = <<>> THEN <<"", "">> ELSE <<"">> \o out)
        ELSE (IF out = <<>> THEN <<".">> ELSE out)

\* filepath.Join of two elements: empty elements are ignored, the rest are
\* joined with "/" and the result is cleaned
Join(a, b) ==
  IF a = <<"">> /\ b = <<"">> THEN <<"">>
  ELSE IF a = <<"">> THEN Clean(b)
  ELSE IF b = <<"">> THEN Clean(a)
  ELSE Clean(a \o b)

\* "/" + fileParam
SlashPrefix(p) == <<"">> \o p

\* indexHandler: the cleaned request path
CleanUrlPath(urlPath) == Clean(urlPath)

\* a plausible slip: the request path is joined without being cleaned first
ResolveIndexNoClean(urlPath) == Join(dir, urlPath)

\* indexHandler: the filesystem path of a request path
ResolveIndex(urlPath) == Join(dir, CleanUrlPath(urlPath))

\* a plausible slip: the file parameter is cleaned without the leading "/"
ResolveSpeedNoSlash(fileParam) == Join(dir, Clean(fileParam))

\* speedTestHandler: the candidate path of the file parameter
ResolveSpeed(fileParam) == Join(dir, Clean(SlashPrefix(fileParam)))

\* p lies within the directory d (lexically)
Within(p, d) ==
  LET cd == Clean(d)
  IN  IF cd = <<".">> THEN ~IsRooted(p) /\ p[1] # ".."
      ELSE IF cd = <<"", "">> THEN IsRooted(p) /\ (Len(p) = 2 \/ p[2] # "..")
      ELSE IsPrefix(cd, p) /\ \A i \in (Len(cd) + 1)..Len(p) : p[i] # ".."

(***************************************************************************)
(* File names.  A name is spelled out as its bytes so that filepath.Ext,   *)
(* strings.ToLower and the byte-wise order of filepath.Walk are computed.  *)
(***************************************************************************)
Spell ==
  [n \in {"b.txt", "d.iso", "m", "n", "x.TS", "z.mp4"} |->
     CASE n = "b.txt" -> <<"b", ".", "t", "x", "t">>
       [] n = "d.iso" -> <<"d", ".", "i", "s", "o">>
       [] n = "m"     -> <<"m">>
       [] n = "n"     -> <<"n">>
       [] n = "x.TS"  -> <<"x", ".", "T", "S">>
       [] n = "z.mp4" -> <<"z", ".", "m", "p", "4">>]

\* byte values (ASCII) of the characters that occur
Ord ==
  [c \in {".", "4", "S", "T", "b", "d", "i", "m", "n", "o", "p", "r", "s",
          "t", "u", "v", "x", "z", "k"} |->
     CASE c = "." -> 46 [] c = "4" -> 52 [] c = "S" -> 83 [] c = "T" -> 84
       [] c = "b" -> 98 [] c = "d" -> 100 [] c = "i" -> 105 [] c = "k" -> 107
       [] c = "m" -> 109 [] c = "n" -> 110 [] c = "o" -> 111 [] c = "p" -> 112
       [] c = "r" -> 114 [] c = "s" -> 115 [] c = "t" -> 116 [] c = "u" -> 117
       [] c = "v" -> 118 [] c = "x" -> 120 [] c = "z" -> 122]

\* strings.ToLower, one byte
LowerChar(c) == IF c = "S" THEN "s" ELSE IF c = "T" THEN "t" ELSE c

\* strings.ToLower
ToLower(cs) == [i \in 1..Len(cs) |-> LowerChar(cs[i])]

\* filepath.Ext of a name: the suffix beginning at the last dot, or empty
Ext(cs) ==
  LET dots == {i \in 1..Len(cs) : cs[i] = "."}
  IN  IF dots = {} THEN <<>>
      ELSE LET d == CHOOSE i \in dots : \A j \in dots : j <= i
           IN  SubSeq(cs, d, Len(cs))

\* the fixed media set of speedTestHandler
MediaExts ==
  { <<".", "m", "k", "v">>, <<".", "m", "p", "4">>, <<".", "t", "s">>,
    <<".", "m", "2", "t", "s">>, <<".", "i", "s", "o">> }

\* a plausible slip: the extension is compared without lower-casing
IsMediaNoLower(name) == Ext(Spell[name]) \in MediaExts

\* speedTestHandler's extension test on the path's last element
IsMedia(name) == ToLower(Ext(Spell[name])) \in MediaExts

RECURSIVE LessBytes(_, _)
\* byte-wise string order (sort.Strings, used by filepath.Walk)
LessBytes(a, b) ==
  IF a = <<>> THEN b # <<>>
  ELSE IF b = <<>> THEN FALSE
  ELSE IF Ord[Head(a)] # Ord[Head(b)] THEN Ord[Head(a)] < Ord[Head(b)]
  ELSE LessBytes(Tail(a), Tail(b))

RECURSIVE SortNames(_)
\* the names of a set in byte-wise order
SortNames(S) ==
  IF S = {} THEN <<>>
  ELSE LET least == CHOOSE n \in S :
                      \A o \in S \ {n} : LessBytes(Spell[n], Spell[o])
       IN  <<least>> \o SortNames(S \ {least})

(***************************************************************************)
(* The directory tree under the serving root.  An entry is keyed by its    *)
(* path relative to the root (a sequence of names); the root is <<>>.      *)
(***************************************************************************)
F(path, size) == [path |-> path, isDir |-> FALSE, size |-> size]

D(path) == [path |-> path, isDir |-> TRUE, size |-> 0]

\* media file in a sub-directory found before a later one at the top, a
\* directory with a media extension, an upper-case extension
TreeRich ==
  { F(<<"b.txt">>, 1), D(<<"d.iso">>), F(<<"d.iso", "n">>, 2),
    D(<<"m">>), F(<<"m", "x.TS">>, 3), F(<<"z.mp4">>, 1) }

\* no media file anywhere
TreeNoMedia == { F(<<"b.txt">>, 0), D(<<"d.iso">>), F(<<"d.iso", "n">>, 2) }

\* a single media file at the top
TreeFlat == { F(<<"z.mp4">>, 2), D(<<"m">>) }

Trees == { TreeRich, TreeNoMedia, TreeFlat, {} }

NoFile == [path |-> <<>>, isDir |-> FALSE, size |-> 0, exists |-> FALSE]

\* the part of a full path below the serving root, or <<"..">> when outside
RelPath(full) ==
  LET cd == Clean(dir)
  IN  IF cd = <<"", "">>
        THEN (IF IsRooted(full) THEN (IF Len(full) = 2 /\ full[2] = "" THEN <<>> ELSE Tail(full))
              ELSE <<"..">>)
      ELSE IF IsPrefix(cd, full) THEN SubSeq(full, Len(cd) + 1, Len(full))
      ELSE <<"..">>

\* os.Stat: the entry of a full path
Stat(full) ==
  LET rel == RelPath(full)
  IN  IF rel = <<>> THEN [path |-> <<>>, isDir |-> TRUE, size |-> 0, exists |-> TRUE]
      ELSE IF \E e \in fs : e.path = rel
        THEN LET e == CHOOSE e \in fs : e.path = rel
             IN  [path |-> rel, isDir |-> e.isDir, size |-> e.size, exists |-> TRUE]
      ELSE NoFile

\* the immediate children of a directory (relative path)
Children(rel) == { e \in fs : Len(e.path) = Len(rel) + 1 /\ IsPrefix(rel, e.path) }

ChildNames(rel) == { Last(e.path) : e \in Children(rel) }

EntryAt(rel) == CHOOSE e \in fs : e.path = rel

RECURSIVE WalkFrom(_)
RECURSIVE WalkList(_, _)
\* filepath.Walk with speedTestHandler's callback: the first media file at or
\* below rel in pre-order, names in byte order; <<>> when there is none
WalkFrom(rel) ==
  IF rel # <<>> /\ ~EntryAt(rel).isDir
    THEN (IF IsMedia(Last(rel)) THEN rel ELSE <<>>)
  ELSE WalkList(rel, SortNames(ChildNames(rel)))

WalkList(rel, names) ==
  IF names = <<>> THEN <<>>
  ELSE LET hit == WalkFrom(Append(rel, Head(names)))
       IN  IF hit # <<>> THEN hit ELSE WalkList(rel, Tail(names))

\* the Walk of speedTestHandler: found, as a full path, or <<"">> (empty)
WalkFound ==
  LET hit == WalkFrom(<<>>)
  IN  IF hit = <<>> THEN <<"">> ELSE Join(dir, hit)

(***************************************************************************)
(* Per-request state of a worker (one goroutine per request) and the       *)
(* response writer it holds.                                               *)
(*   status/sentType/sentLen : what was committed with the header          *)
(*   hdrType/hdrLen          : the header map, read when the header is     *)
(*                             committed by the first body write           *)
(*   written                 : bytes the handler asked the writer to send  *)
(*   stream                  : file bytes that went into the body          *)
(***************************************************************************)
IdleRec ==
  [pc |-> "idle", route |-> "", urlPath |-> <<"">>, fileParam |-> <<"">>,
   hasRange |-> FALSE, full |-> <<"">>, target |-> <<"">>, f |-> 0,
   status |-> 0, hdrType |-> "", hdrLen |-> -1, committed |-> FALSE,
   sentType |-> "", sentLen |-> -1, written |-> 0, stream |-> 0,
   jsonBody |-> FALSE, listing |-> <<>>, size |-> 0, remaining |-> 0,
   total |-> 0, toRead |-> 0, nr |-> 0, rdCalls |-> 0, rdBytes |-> 0,
   logLines |-> 0, logJson |-> 0, reported |-> -1, ioErr |-> FALSE,
   connBroken |-> FALSE, stop |-> "", opens |-> 0]

\* request paths (r.URL.Path) tried by the server model
ReqPaths ==
  { <<"">>, <<"", "">>, <<"", "b.txt">>, <<"", "m">>, <<"", "m", "">>,
    <<"", "m", "x.TS">>, <<"", "n">>, <<"", "m", "..", "z.mp4">>,
    <<"", "..", "..">>, <<"", "d.iso">>, <<"", "d.iso", "n">> }

\* values of the file query parameter tried by the server model
FileParams ==
  { <<"">>, <<"m", "x.TS">>, <<"..", "b.txt">>, <<"n">>, <<"m">>,
    <<"z.mp4">>, <<"", "d.iso", "n">> }

\* the open-file table: the lowest free descriptor is handed out
FreeFd == CHOOSE n \in 1..(Cardinality(fds) + 1) : \A e \in fds : e.fd # n

\* os.Open by worker w
OpenFile(w, full) ==
  fds \cup {[fd |-> FreeFd, owner |-> w, path |-> RelPath(full), pos |-> 0]}

\* f.Close of the worker's descriptor
CloseFile(w) == { e \in fds : e.fd # wk[w].f }

FdEntry(w) == CHOOSE e \in fds : e.fd = wk[w].f

\* a plausible slip: Close at the end of the normal path instead of defer
FdsAtReturnNoDefer(w, aborted) == IF aborted THEN fds ELSE CloseFile(w)

\* defer f.Close(): the table after the handler returns, on any path
FdsAtReturn(w, aborted) == CloseFile(w)

\* a plausible slip: the stat error is not checked
StatFailsNever(st) == FALSE

\* indexHandler: os.Stat returned an error
StatFails(st) == ~st.exists

\* a plausible slip: a directory is accepted as the speed-test source
CandidateOkNoDirCheck(st) == st.exists

\* speedTestHandler: err == nil && !fi.IsDir()
CandidateOk(st) == st.exists /\ ~st.isDir

\* a plausible slip: the link is the entry name alone
HrefNameOnly(upath, name) == <<name>>

\* indexHandler: filepath.ToSlash(filepath.Join(upath, name))
Href(upath, name) == Join(upath, <<name>>)

\* a plausible slip: the report is printed whatever CopyBuffer returned
CopyReportsAlways(err) == 1

\* serveFileFast: report lines printed after io.CopyBuffer returned
CopyReports(err) == IF err THEN 0 ELSE 1

\* a plausible slip: the -speedbytes flag is ignored
EffectiveSizeDefault == DefaultSize

\* speedTestHandler: size
EffectiveSize == IF speedBytes <= 0 THEN DefaultSize ELSE speedBytes

\* a plausible slip: the read is not capped by the remaining budget
ToReadUncapped(remaining) == BufLen

\* speedTestHandler: toRead
ToRead(remaining) == IF remaining < BufLen THEN remaining ELSE BufLen

\* a plausible slip: a short write without an error does not stop the loop
LoopBreaksOnErrorOnly(nr, nw, errw) == errw

\* speedTestHandler: errw != nil || nw != nr
LoopBreaks(nr, nw, errw) == errw \/ nw # nr

\* mime.TypeByExtension with the built-in table: none of the extensions of the
\* model is in it, so the lookup returns ""
TypeByExtension(ext) == ""

RECURSIVE Perms(_)
\* the orders in which Readdir may enumerate a set of entries
Perms(S) ==
  IF S = {} THEN {<<>>}
  ELSE UNION { { <<x>> \o q : q \in Perms(S \ {x}) } : x \in S }

\* the header is committed by the first body write (or at return)
Commit(r, code) ==
  IF r.committed THEN r
  ELSE [r EXCEPT !.committed = TRUE, !.status = code,
                 !.sentType = r.hdrType, !.sentLen = r.hdrLen]

\* http.Error / http.NotFound: a plain-text error response
HttpError(r, code) ==
  Commit([r EXCEPT !.hdrType = "text/plain; charset=utf-8", !.hdrLen = -1], code)

\* the handler returns: the server commits a header not yet written
Return(r) == [Commit(r, 200) EXCEPT !.pc = "done", !.f = 0]

\* ResponseWriter.Write of n file bytes, of which the connection takes nw:
\* a write past the declared Content-Length is refused whole
BodyWrite(r, n, nw, errw) ==
  LET c == Commit(r, 200)
      over == c.sentLen # -1 /\ c.written + n > c.sentLen
  IN  [c EXCEPT !.written = c.written + n,
                !.stream = IF over THEN c.stream ELSE c.stream + nw,
                !.connBroken = c.connBroken \/ (errw /\ ~over)]

\* the bytes a ResponseWriter.Write of n bytes reports, given the connection's nw
Accepted(r, n, nw) ==
  IF Commit(r, 200).sentLen # -1 /\ r.written + n > Commit(r, 200).sentLen
    THEN 0 ELSE nw

\* whether that Write returns an error
WriteErr(r, n, errw) ==
  errw \/ (Commit(r, 200).sentLen # -1 /\ r.written + n > Commit(r, 200).sentLen)

Set(w, r) == wk' = [wk EXCEPT ![w] = r]

(***************************************************************************)
(* The server: main registers indexHandler on "/" and speedTestHandler on  *)
(* "/speedtest"; every request runs in its own worker.                     *)
(***************************************************************************)
Receive(w) ==
  /\ wk[w].pc = "idle"
  /\ \/ \E p \in ReqPaths, rg \in BOOLEAN :
          Set(w, [wk[w] EXCEPT !.pc = "index", !.route = "index",
                               !.urlPath = p, !.hasRange = rg])
     \/ \E fp \in FileParams :
          Set(w, [wk[w] EXCEPT !.pc = "speedtest", !.route = "speedtest",
                               !.fileParam = fp])
  /\ UNCHANGED <<dir, speedBytes, fs, active, fds, pin, pout>>

\* indexHandler, lines 46-53 and 75: resolve, stat, branch
IndexStatResult(r) ==
  LET full == ResolveIndex(r.urlPath)
      st == Stat(full)
      q == [r EXCEPT !.full = full]
  IN  IF StatFails(st) THEN Return(HttpError(q, 404))
      ELSE IF st.isDir THEN [q EXCEPT !.pc = "opendir"]
      ELSE [q EXCEPT !.pc = "serve"]

IndexStat(w) ==
  /\ wk[w].pc = "index"
  /\ Set(w, IndexStatResult(wk[w]))
  /\ UNCHANGED <<dir, speedBytes, fs, active, fds, pin, pout>>

\* indexHandler, lines 54-58: open the directory
IndexOpenDir(w) ==
  /\ wk[w].pc = "opendir"
  /\ \/ /\ Set(w, Return(HttpError(wk[w], 500)))
        /\ UNCHANGED fds
     \/ /\ fds' = OpenFile(w, wk[w].full)
        /\ Set(w, [wk[w] EXCEPT !.pc = "readdir", !.f = FreeFd, !.opens = @ + 1])
  /\ UNCHANGED <<dir, speedBytes, fs, active, pin, pout>>

\* one list item of the listing
ListItem(upath, e) ==
  [name |-> Last(e.path), href |-> Href(upath, Last(e.path)), size |-> e.size]

\* indexHandler, lines 59-73: read the directory, close it, write the listing
IndexReadDir(w) ==
  /\ wk[w].pc = "readdir"
  /\ fds' = CloseFile(w)
  /\ \/ Set(w, Return(HttpError(wk[w], 500)))
     \/ \E order \in Perms(Children(FdEntry(w).path)) :
          LET upath == CleanUrlPath(wk[w].urlPath)
              list == [i \in 1..Len(order) |-> ListItem(upath, order[i])]
          IN  Set(w, Return([wk[w] EXCEPT
                      !.hdrType = "text/html; charset=utf-8",
                      !.listing = list]))
  /\ UNCHANGED <<dir, speedBytes, fs, active, pin, pout>>

\* serveFileFast, lines 79-84 and 89-103: open the file, set the headers
ServeOpen(w) ==
  /\ wk[w].pc = "serve"
  /\ \/ /\ Set(w, Return(HttpError(wk[w], 500)))
        /\ UNCHANGED fds
     \/ /\ fds' = OpenFile(w, wk[w].full)
        /\ IF wk[w].hasRange
             THEN Set(w, [wk[w] EXCEPT !.pc = "range", !.f = FreeFd, !.opens = @ + 1])
             ELSE LET typ == TypeByExtension(ToLower(Ext(Spell[Last(wk[w].full)])))
                  IN  Set(w, [wk[w] EXCEPT
                        !.pc = "copy", !.f = FreeFd, !.opens = @ + 1,
                        !.hdrType = IF typ = "" THEN "application/octet-stream" ELSE typ,
                        !.hdrLen = Stat(wk[w].full).size])
  /\ UNCHANGED <<dir, speedBytes, fs, active, pin, pout>>

\* serveFileFast, lines 85-87: http.ServeContent answers, then the file is closed
ServeRange(w) ==
  /\ wk[w].pc = "range"
  /\ fds' = CloseFile(w)
  /\ \E code \in {200, 206, 416} :
       Set(w, Return(Commit(wk[w], code)))
  /\ UNCHANGED <<dir, speedBytes, fs, active, pin, pout>>

\* serveFileFast, line 104: one round of io.CopyBuffer (read a chunk, write it)
ServeCopy(w) ==
  /\ wk[w].pc = "copy"
  /\ LET e == FdEntry(w)
         left == Stat(wk[w].full).size - e.pos
     IN  \/ \* end of file: CopyBuffer returns nil
            /\ left = 0
            /\ Set(w, [wk[w] EXCEPT !.pc = "report"])
            /\ UNCHANGED fds
         \/ \* read error: CopyBuffer returns it, the handler returns
            /\ Set(w, Return([wk[w] EXCEPT !.ioErr = TRUE,
                                !.logLines = @ + CopyReports(TRUE)]))
            /\ fds' = FdsAtReturn(w, TRUE)
         \/ \E n \in 1..Min(BufLen, left) : \E nw \in 0..n, errw \in BOOLEAN :
              LET r == BodyWrite(wk[w], n, Accepted(wk[w], n, nw), errw)
              IN  IF WriteErr(wk[w], n, errw) \/ Accepted(wk[w], n, nw) # n
                    THEN /\ Set(w, Return([r EXCEPT !.ioErr = TRUE,
                                             !.logLines = @ + CopyReports(TRUE)]))
                         /\ fds' = FdsAtReturn(w, TRUE)
                    ELSE /\ Set(w, r)
                         /\ fds' = (fds \ {e}) \cup {[e EXCEPT !.pos = e.pos + n]}
  /\ UNCHANGED <<dir, speedBytes, fs, active, pin, pout>>

\* serveFileFast, lines 105-113: the transfer report, then the deferred Close
ServeReport(w) ==
  /\ wk[w].pc = "report"
  /\ Set(w, Return([wk[w] EXCEPT !.logLines = @ + CopyReports(FALSE)]))
  /\ fds' = FdsAtReturn(w, FALSE)
  /\ UNCHANGED <<dir, speedBytes, fs, active, pin, pout>>

\* speedTestHandler, lines 116-142: choose the source file
SpeedSelectResult(r) ==
  LET fp == r.fileParam
      candidate == ResolveSpeed(fp)
      target == IF fp # <<"">> /\ CandidateOk(Stat(candidate))
                  THEN candidate ELSE <<"">>
      found == WalkFound
  IN  IF target # <<"">>
        THEN [r EXCEPT !.pc = "stopen", !.target = target]
      ELSE IF found = <<"">>
        THEN Return(HttpError(r, 404))
      ELSE [r EXCEPT !.pc = "stopen", !.target = found]

SpeedSelect(w) ==
  /\ wk[w].pc = "speedtest"
  /\ Set(w, SpeedSelectResult(wk[w]))
  /\ UNCHANGED <<dir, speedBytes, fs, active, fds, pin, pout>>

\* speedTestHandler, lines 143-159: open the source, set the headers
SpeedOpen(w) ==
  /\ wk[w].pc = "stopen"
  /\ \/ /\ Set(w, Return(HttpError(wk[w], 500)))
        /\ UNCHANGED fds
     \/ /\ fds' = OpenFile(w, wk[w].target)
        /\ Set(w, [wk[w] EXCEPT
              !.pc = "loop", !.f = FreeFd, !.opens = @ + 1, !.size = EffectiveSize,
              !.hdrType = "application/octet-stream", !.hdrLen = EffectiveSize,
              !.remaining = EffectiveSize, !.total = 0])
  /\ UNCHANGED <<dir, speedBytes, fs, active, pin, pout>>

\* speedTestHandler, lines 160-165 and 174-176: the loop test and one Read
SpeedRead(w) ==
  /\ wk[w].pc = "loop"
  /\ LET e == FdEntry(w)
         left == Stat(wk[w].target).size - e.pos
         toRead == ToRead(wk[w].remaining)
         called == [wk[w] EXCEPT !.toRead = toRead, !.rdCalls = @ + 1]
     IN  \/ \* remaining > 0 fails: budget exhausted
            /\ ~(wk[w].remaining > 0)
            /\ Set(w, [wk[w] EXCEPT !.pc = "streport", !.stop = "budget"])
            /\ UNCHANGED fds
         \/ \* Read returns 0, io.EOF
            /\ wk[w].remaining > 0
            /\ left = 0
            /\ Set(w, [called EXCEPT !.pc = "streport", !.stop = "eof"])
            /\ UNCHANGED fds
         \/ \* Read returns 0 and an I/O error
            /\ wk[w].remaining > 0
            /\ Set(w, [called EXCEPT !.pc = "streport", !.stop = "readerr",
                                     !.ioErr = TRUE])
            /\ UNCHANGED fds
         \/ \* Read returns nr > 0 bytes (possibly fewer than asked)
            /\ wk[w].remaining > 0
            /\ \E n \in 1..Min(toRead, left) :
                 /\ Set(w, [called EXCEPT !.pc = "write", !.nr = n,
                                          !.rdBytes = @ + n])
                 /\ fds' = (fds \ {e}) \cup {[e EXCEPT !.pos = e.pos + n]}
  /\ UNCHANGED <<dir, speedBytes, fs, active, pin, pout>>

\* speedTestHandler, lines 166-173: write the chunk, account for it
SpeedWrite(w) ==
  /\ wk[w].pc = "write"
  /\ \E nwc \in 0..wk[w].nr, errc \in BOOLEAN :
       LET nr == wk[w].nr
           nw == Accepted(wk[w], nr, nwc)
           errw == WriteErr(wk[w], nr, errc)
           r == BodyWrite(wk[w], nr, nw, errc)
       IN  IF LoopBreaks(nr, nw, errw)
             THEN Set(w, [r EXCEPT !.pc = "streport", !.ioErr = TRUE, !.nr = 0,
                                   !.toRead = 0,
                                   !.stop = IF errw THEN "writeerr" ELSE "short"])
             ELSE Set(w, [r EXCEPT !.pc = "loop", !.nr = 0, !.toRead = 0,
                                   !.total = @ + nw, !.remaining = @ - nw])
  /\ UNCHANGED <<dir, speedBytes, fs, active, fds, pin, pout>>

\* speedTestHandler, lines 178-192: the JSON summary to the log and to the
\* response, then the deferred Close
SpeedReport(w) ==
  /\ wk[w].pc = "streport"
  /\ \E jl \in 1..MaxJsonLen :
       LET logged == [wk[w] EXCEPT !.logJson = @ + 1, !.reported = wk[w].total,
                                   !.hdrType = "application/json"]
           c == Commit(logged, 200)
           fits == ~(c.sentLen # -1 /\ c.written + jl > c.sentLen)
       IN  Set(w, Return([c EXCEPT !.written = @ + jl,
                                   !.jsonBody = fits /\ ~c.connBroken]))
  /\ fds' = FdsAtReturn(w, FALSE)
  /\ UNCHANGED <<dir, speedBytes, fs, active, pin, pout>>

\* the server finishes the request; the worker takes the next one
Finish(w) ==
  /\ wk[w].pc = "done"
  /\ Set(w, IdleRec)
  /\ UNCHANGED <<dir, speedBytes, fs, active, fds, pin, pout>>

Next ==
  \/ \E w \in active : Receive(w)
  \/ \E w \in active : IndexStat(w)
  \/ \E w \in active : IndexOpenDir(w)
  \/ \E w \in active : IndexReadDir(w)
  \/ \E w \in active : ServeOpen(w)
  \/ \E w \in active : ServeRange(w)
  \/ \E w \in active : ServeCopy(w)
  \/ \E w \in active : ServeReport(w)
  \/ \E w \in active : SpeedSelect(w)
  \/ \E w \in active : SpeedOpen(w)
  \/ \E w \in active : SpeedRead(w)
  \/ \E w \in active : SpeedWrite(w)
  \/ \E w \in active : SpeedReport(w)
  \/ \E w \in active : Finish(w)

NoPath == [route |-> "", str |-> <<"">>]

Init ==
  /\ dir = <<"", "srv">>
  /\ speedBytes \in -1..MaxSpeedBytes
  /\ fs \in Trees
  /\ active = {1}
  /\ fds = {}
  /\ wk = [w \in Workers |-> IdleRec]
  /\ pin = NoPath
  /\ pout = <<>>

Spec == Init /\ [][Next]_vars

\* every Read and Write call of the streaming loop returns, and the handler
\* goes on to its report
LiveSpec ==
  /\ Init
  /\ [][Next]_vars
  /\ \A w \in Workers :
       WF_vars(SpeedRead(w)) /\ WF_vars(SpeedWrite(w)) /\ WF_vars(SpeedReport(w))

\* two requests at once, on the rich tree
InitConc ==
  /\ dir = <<"", "srv">>
  /\ speedBytes = BufLen
  /\ fs = TreeRich
  /\ active = Workers
  /\ fds = {}
  /\ wk = [w \in Workers |-> IdleRec]
  /\ pin = NoPath
  /\ pout = <<>>

ConcSpec == InitConc /\ [][Next]_vars

(***************************************************************************)
(* Path resolution alone, over every short request path and file           *)
(* parameter and several serving roots.                                    *)
(***************************************************************************)
SegAlphabet == {"..", ".", "", "m", "n"}

SegSeqs == UNION { [1..k -> SegAlphabet] : k \in 1..MaxSegs }

\* r.URL.Path of a request the server parsed is empty or begins with "/"
UrlPaths == {<<"">>} \cup { <<"">> \o q : q \in SegSeqs }

\* values of -dir
Dirs == { <<"", "srv">>, <<".">>, <<"", "">>, <<"pub">>, <<"..", "pub">>,
          <<"", "srv", "pub", "">> }

\* indexHandler, lines 46-47
PathIndex ==
  /\ pin.route = "index"
  /\ pout = <<>>
  /\ pout' = ResolveIndex(pin.str)
  /\ UNCHANGED <<dir, speedBytes, fs, active, fds, wk, pin>>

\* speedTestHandler, lines 116-119
PathSpeed ==
  /\ pin.route = "speedtest"
  /\ pin.str # <<"">>
  /\ pout = <<>>
  /\ pout' = ResolveSpeed(pin.str)
  /\ UNCHANGED <<dir, speedBytes, fs, active, fds, wk, pin>>

NextPath == PathIndex \/ PathSpeed

InitPath ==
  /\ dir \in Dirs
  /\ speedBytes = DefaultSize
  /\ fs = {}
  /\ active = {}
  /\ fds = {}
  /\ wk = [w \in Workers |-> IdleRec]
  /\ pin \in [route : {"index"}, str : UrlPaths]
             \cup [route : {"speedtest"}, str : SegSeqs]
  /\ pout = <<>>

PathSpec == InitPath /\ [][NextPath]_vars

(***************************************************************************)
(* Properties.                                                             *)
(***************************************************************************)
Root == Clean(dir)

\* the speed-test requests that got past source selection and os.Open
Streaming(w) ==
  wk[w].route = "speedtest" /\ wk[w].opens = 1

\* the regular files of the tree whose lower-cased extension is in the media
\* set, listed by name: x.TS (.ts) and z.mp4 (.mp4); d.iso is a directory
MediaFiles == { e \in fs : ~e.isDir /\ Last(e.path) \in {"x.TS", "z.mp4"} }

\* a comes before b in a pre-order walk that visits names in byte order
Precedes(a, b) ==
  \/ Len(a) < Len(b) /\ IsPrefix(a, b)
  \/ \E i \in 1..Min(Len(a), Len(b)) :
       /\ SubSeq(a, 1, i - 1) = SubSeq(b, 1, i - 1)
       /\ LessBytes(Spell[a[i]], Spell[b[i]])

FirstMedia ==
  CHOOSE e \in MediaFiles : \A o \in MediaFiles \ {e} : Precedes(e.path, o.path)

\* the file parameter of w names an existing regular file under the root
ParamNamesFile(w) ==
  /\ wk[w].fileParam # <<"">>
  /\ \E e \in fs : ~e.isDir /\ ResolveSpeed(wk[w].fileParam) = <<"", "srv">> \o e.path

\* C1: the path computed from any request path, and from any file parameter,
\* lies within the serving root; the empty and the root request path resolve
\* to the serving root itself.
C1_ResolvedWithinRoot ==
  pout # <<>> =>
    /\ Within(pout, dir)
    /\ (pin.route = "index" /\ pin.str \in {<<"">>, <<"", "">>}) => pout = Root

\* a file parameter that climbs twice was resolved under /srv
C1_Witness ==
  /\ pin = [route |-> "speedtest", str |-> <<"..", "..", "m">>]
  /\ dir = <<"", "srv">>
  /\ pout = <<"", "srv", "m">>

C3_SourceSelection ==
  \A w \in Workers :
    wk[w].route = "speedtest" =>
      /\ wk[w].target # <<"">> =>
           wk[w].target = IF ParamNamesFile(w)
                            THEN ResolveSpeed(wk[w].fileParam)
                            ELSE <<"", "srv">> \o FirstMedia.path
      /\ wk[w].pc \notin {"idle", "speedtest"} =>
           /\ (wk[w].status = 404) <=> (wk[w].target = <<"">>)
           /\ (wk[w].target = <<"">>) <=> (~ParamNamesFile(w) /\ MediaFiles = {})
      /\ wk[w].status = 404 =>
           wk[w].opens = 0 /\ wk[w].stream = 0 /\ wk[w].rdCalls = 0

\* the parameter names nothing, and the walk found m/x.TS before z.mp4
C3_Witness ==
  /\ fs = TreeRich
  /\ wk[1].fileParam = <<"n">>
  /\ wk[1].pc = "loop"
  /\ wk[1].target = <<"", "srv", "m", "x.TS">>

\* nothing of a file or a listing went into the response of w
NothingSent(w) ==
  wk[w].stream = 0 /\ wk[w].listing = <<>> /\ ~wk[w].jsonBody /\ wk[w].opens = 0

\* the request path of w resolves to nothing
IndexMissing(w) ==
  wk[w].route = "index" /\ ~Stat(ResolveIndex(wk[w].urlPath)).exists

\* the file parameter of w is given and resolves to nothing
ParamMissing(w) ==
  /\ wk[w].route = "speedtest"
  /\ wk[w].fileParam # <<"">>
  /\ ~Stat(ResolveSpeed(wk[w].fileParam)).exists

\* C4 as stated: on either route a resolved path that does not exist is
\* answered 404 with no file or listing content.
C4_NotFoundAnyRoute ==
  \A w \in Workers :
    (wk[w].pc = "done" /\ (IndexMissing(w) \/ ParamMissing(w))) =>
      (wk[w].status = 404 /\ NothingSent(w))

\* C4 amended: indexHandler answers a missing resolved path with 404 and no
\* content; speedTestHandler answers a missing file parameter with 404 and no
\* content when the walk finds no media file, and otherwise goes on with the
\* first media file of the walk.
C4_NotFoundAmended ==
  \A w \in Workers :
    /\ (wk[w].pc \notin {"idle", "index"} /\ IndexMissing(w)) =>
         (wk[w].pc = "done" /\ wk[w].status = 404 /\ NothingSent(w))
    /\ (wk[w].pc \notin {"idle", "speedtest"} /\ ParamMissing(w)) =>
         IF MediaFiles = {}
           THEN wk[w].pc = "done" /\ wk[w].status = 404 /\ NothingSent(w)
           ELSE /\ wk[w].status # 404
                /\ wk[w].target = <<"", "srv">> \o FirstMedia.path

\* a missing request path was answered 404
C4_Witness ==
  /\ fs = TreeRich
  /\ wk[1].pc = "done" /\ wk[1].route = "index"
  /\ wk[1].urlPath = <<"", "n">>
  /\ wk[1].status = 404

\* C5 as stated: every speed-test run that opened its source puts the JSON
\* summary in the log and in the response body, and the response carries
\* Content-Type application/json, however many stream bytes went before.
C5_JsonInBodyAndType ==
  \A w \in Workers :
    (wk[w].pc = "done" /\ Streaming(w) /\ ~wk[w].connBroken) =>
      /\ wk[w].logJson = 1
      /\ wk[w].jsonBody
      /\ wk[w].sentType = "application/json"

\* the full-mode transfers of w whose copy ran to the end of the file
FullCopyDone(w) ==
  /\ wk[w].route = "index"
  /\ ~wk[w].hasRange
  /\ wk[w].opens = 1
  /\ ~Stat(wk[w].full).isDir
  /\ ~wk[w].ioErr

\* C6: serveFileFast prints one report line for a full-mode transfer whose
\* copy completed, after the last body byte, and none for a range request, an
\* aborted copy or a failed open.
C6_ReportOncePerFullTransfer ==
  /\ [](\A w \in Workers :
          /\ wk[w].logLines \in {0, 1}
          /\ (wk[w].pc = "done" /\ wk[w].route = "index") =>
               (wk[w].logLines = 1 <=> FullCopyDone(w))
          /\ wk[w].pc # "done" => wk[w].logLines = 0)
  /\ [][\A w \in Workers :
          wk'[w].logLines > wk[w].logLines =>
            /\ wk[w].stream = Stat(wk[w].full).size
            /\ wk'[w].stream = wk[w].stream
            /\ wk'[w].pc = "done"]_vars

\* a 3-byte file was sent whole and reported
C6_Witness ==
  /\ wk[1].pc = "done" /\ wk[1].route = "index"
  /\ wk[1].logLines = 1
  /\ wk[1].stream = 3

\* the descriptors worker w holds
Held(w) == { e \in fds : e.owner = w }

\* C7: a handle is opened only after path resolution, on the resolved path,
\* is held by the request that opened it alone, and is closed when the
\* handler has returned, on every exit path.
C7_HandlesScopedToRequest ==
  \A w \in Workers :
    /\ wk[w].pc \in {"idle", "index", "opendir", "serve", "speedtest",
                     "stopen", "done"} => (Held(w) = {} /\ wk[w].f = 0)
    /\ wk[w].pc \in {"readdir", "range", "copy", "report", "loop", "write",
                     "streport"} =>
         /\ Cardinality(Held(w)) = 1
         /\ \A e \in Held(w) :
              /\ e.fd = wk[w].f
              /\ e.path = RelPath(IF wk[w].route = "index"
                                    THEN wk[w].full ELSE wk[w].target)
         /\ \A e \in fds : e.fd = wk[w].f => e.owner = w
    /\ \A e1, e2 \in fds : e1.fd = e2.fd => e1 = e2

\* one request returned after a write error while the other still streams
C7_Witness ==
  /\ wk[1].pc = "done" /\ wk[1].ioErr /\ wk[1].opens = 1
  /\ wk[2].pc = "write"
  /\ Cardinality(fds) = 1

\* C8: the listing has one entry per immediate child and nothing else, and
\* each link, requested as a path, resolves to that child.
C8_ListingAndLinks ==
  \A w \in Workers :
    (wk[w].pc = "done" /\ wk[w].route = "index" /\ wk[w].status = 200
       /\ Stat(wk[w].full).isDir) =>
      LET list == wk[w].listing
          rel == RelPath(wk[w].full)
      IN  /\ { list[i].name : i \in 1..Len(list) } = ChildNames(rel)
          /\ Len(list) = Cardinality(ChildNames(rel))
          /\ \A i \in 1..Len(list) :
               /\ ResolveIndex(list[i].href) = wk[w].full \o <<list[i].name>>
               /\ Stat(ResolveIndex(list[i].href)).exists
               /\ Stat(ResolveIndex(list[i].href)).path = Append(rel, list[i].name)

\* the listing of /m/ links to /m/x.TS
C8_Witness ==
  /\ wk[1].pc = "done"
  /\ wk[1].urlPath = <<"", "m", "">>
  /\ Len(wk[1].listing) = 1
  /\ wk[1].listing[1].href = <<"", "m", "x.TS">>

\* C9: in the streaming loop total + remaining = size, 0 <= remaining <= size,
\* a read asks for at most min(buffer, remaining) bytes, the bytes read and
\* the bytes written never exceed size, and size > 0.
C9_LoopInvariant ==
  \A w \in Workers :
    Streaming(w) =>
      /\ wk[w].size > 0
      /\ wk[w].size = IF speedBytes > 0 THEN speedBytes ELSE DefaultSize
      /\ wk[w].total + wk[w].remaining = wk[w].size
      /\ 0 <= wk[w].remaining /\ wk[w].remaining <= wk[w].size
      /\ wk[w].toRead <= Min(BufLen, wk[w].remaining)
      /\ wk[w].nr <= wk[w].toRead
      /\ wk[w].rdBytes <= wk[w].size
      /\ wk[w].stream <= wk[w].size
      /\ wk[w].total <= wk[w].stream

\* a short write stopped the loop with more bytes sent than counted
C9_Witness ==
  /\ wk[1].pc = "streport"
  /\ wk[1].stop = "short"
  /\ wk[1].stream > wk[1].total
  /\ wk[1].total > 0

InLoop(w) == wk[w].pc \in {"loop", "write"}

\* C10: the streaming loop ends and the report follows; it stops at the first
\* read error or end of file, at the first write error or short write, or when
\* the budget is used up, and no stream data is read or written afterwards.
C10_LoopTerminates ==
  /\ \A w \in Workers :
       InLoop(w) ~> (wk[w].pc = "done" /\ wk[w].logJson = 1)
  /\ [][\A w \in Workers :
          /\ (wk[w].pc = "write" /\ wk'[w].stream # wk[w].stream + wk[w].nr) =>
               wk'[w].pc = "streport"
          /\ (wk[w].pc = "loop" /\ wk'[w].rdCalls # wk[w].rdCalls
                /\ wk'[w].rdBytes = wk[w].rdBytes) => wk'[w].pc = "streport"
          /\ (wk[w].pc = "loop" /\ wk[w].remaining = 0) => wk'[w].pc = "streport"
          /\ (wk[w].pc = "streport" /\ Streaming(w)) =>
               /\ wk'[w].pc = "done"
               /\ wk'[w].stream = wk[w].stream
               /\ wk'[w].rdCalls = wk[w].rdCalls
               /\ wk'[w].rdBytes = wk[w].rdBytes]_vars

\* the loop was left at the end of a source shorter than the budget
C10_Witness ==
  /\ wk[1].pc = "done" /\ wk[1].logJson = 1
  /\ wk[1].stop = "eof"
  /\ wk[1].total > 0 /\ wk[1].remaining > 0

====
